---- MODULE Spec2Model ----
(***************************************************************************)
(* Model of the si5326 register gateway driver (src/si5326.c): the attach  *)
(* time validation of the reset signature, the sysfs attribute si5326_reg  *)
(* with its store (command) and show (query) handlers, and detach.         *)
(*                                                                         *)
(* Text is modelled character by character: a line is a sequence of        *)
(* one-character strings, parsed the way the kernel's sscanf parses        *)
(* "%d 0x%x" and printed the way sprintf prints "%02x %02x".               *)
(***************************************************************************)
EXTENDS Integers, Sequences, FiniteSets, TLC

VARIABLES
    bind,     \* driver core's view of the device: "unbound", "bound", "removing"
    sysfs,    \* TRUE while the attribute group si5326_attr_group exists
    data,     \* the struct si5326_data behind client data: [live, last_addr]
    regs,     \* the chip's register file, bus address -> byte
    last,     \* record of the most recent driver entry point that ran
    uaf,      \* TRUE once a handler has dereferenced a freed si5326_data
    hist,     \* the entry points completed since attach, oldest first
    devs,     \* two attached devices: handle -> [data, lock, regs]
    thr       \* callers inside the handlers of devs: caller -> its position

vars == <<bind, sysfs, data, regs, last, uaf, hist, devs, thr>>

\* the variables of the single device followed through its life, and those
\* of the two devices used by concurrent callers
life == <<bind, sysfs, data, regs, last, uaf>>
conc == <<devs, thr>>

----------------------------------------------------------------------------
(* Bounds of the model *)

\* longest raw command line enumerated by ParseSpec
MaxLen == 7
\* number of register addresses the command script of Spec uses
NumAddrs == 3
\* highest register the modelled chip answers at; above it the chip NACKs
MaxReg == 7

----------------------------------------------------------------------------
(* Program constants *)

EIO == 5
ENODEV == 19
ENOMEM == 12
ENXIO == 6

NRESETS == 4
si5326_reset_values == <<20, 228, 66, 5>>   \* 0x14, 0xe4, 0x42, 0x05

\* what a failed SMBus transfer hands back: a negative errno (no acknowledge)
BusErrnos == {-ENXIO}

----------------------------------------------------------------------------
(* Characters and C library text routines *)

NUL == "NUL"
HexChars == <<"0","1","2","3","4","5","6","7","8","9","a","b","c","d","e","f">>

isspace(c) == c = " "
isdigit(c) == c \in {"0","1","2","3","4","5","6","7","8","9"}
isxdigit(c) == \E i \in 1..16 : HexChars[i] = c
DigitVal(c) == (CHOOSE i \in 1..16 : HexChars[i] = c) - 1

\* *(s + i - 1) of a NUL-terminated buffer holding the line s (1-based i)
At(s, i) == IF i >= 1 /\ i <= Len(s) THEN s[i] ELSE NUL

RECURSIVE skip_spaces(_, _)
skip_spaces(s, i) == IF isspace(At(s, i)) THEN skip_spaces(s, i + 1) ELSE i

\* the digit loop of simple_strtoull: value and position of the first
\* character that is no digit of the base
RECURSIVE ParseDigits(_, _, _, _)
ParseDigits(s, i, base, acc) ==
    IF isxdigit(At(s, i)) /\ DigitVal(At(s, i)) < base
    THEN ParseDigits(s, i + 1, base, acc * base + DigitVal(At(s, i)))
    ELSE [val |-> acc, next |-> i]

\* simple_strtoul(s + i - 1, &next, base) for base 10 and 16; base 16 steps
\* over a leading "0x"
simple_strtoul(s, i, base) ==
    IF base = 16 /\ At(s, i) = "0" /\ At(s, i + 1) = "x"
    THEN ParseDigits(s, i + 2, 16, 0)
    ELSE ParseDigits(s, i, base, 0)

\* the format written "%d %x": nothing to match between the conversions
lit_0x_absent(buf, p) == p

\* the literal "0x" of the format, matched at position p: the position after
\* it, or 0 when the input does not carry it
lit_0x(buf, p) == IF At(buf, p) = "0" /\ At(buf, p + 1) = "x" THEN p + 2 ELSE 0

\* sscanf(buf, "%d 0x%x", &addr, &value): the number of conversions made and
\* the values assigned (a field is present only when it was assigned)
sscanf_d_0x_x(buf) ==
    IF At(buf, 1) = NUL THEN [n |-> 0]
    ELSE
    LET p1 == skip_spaces(buf, 1)
        neg == At(buf, p1) = "-"
        d1 == IF neg THEN At(buf, p1 + 1) ELSE At(buf, p1)
    IN  IF ~isdigit(d1) THEN [n |-> 0]
        ELSE
        LET c1 == simple_strtoul(buf, IF neg THEN p1 + 1 ELSE p1, 10)
            addr == IF neg THEN 0 - c1.val ELSE c1.val
            q == lit_0x(buf, skip_spaces(buf, c1.next))
        IN  IF q = 0 \/ At(buf, q) = NUL
            THEN [n |-> 1, addr |-> addr]
            ELSE
            LET p3 == skip_spaces(buf, q)
            IN  IF ~isxdigit(At(buf, p3)) THEN [n |-> 1, addr |-> addr]
                ELSE [n |-> 2, addr |-> addr,
                      value |-> simple_strtoul(buf, p3, 16).val]

\* digits of n >= 0 in lowercase hexadecimal, most significant first
RECURSIVE HexOf(_)
HexOf(n) == IF n < 16 THEN <<HexChars[n + 1]>>
            ELSE HexOf(n \div 16) \o <<HexChars[(n % 16) + 1]>>

\* an int printed with %x is printed as the unsigned int of the same 32 bits:
\* for n < 0 that is 2^31 + (n + 2^31), eight digits with the top bit set
HexOfInt(n) ==
    IF n >= 0 THEN HexOf(n)
    ELSE LET low == HexOf((n + 2147483647) + 1)
             pad == [i \in 1..(8 - Len(low)) |-> "0"] \o low
         IN  <<HexChars[DigitVal(pad[1]) + 9]>> \o SubSeq(pad, 2, 8)

\* the conversion written %x: no minimum width
fmt_x_unpadded(n) == HexOfInt(n)

\* printf conversion %02x: at least two digits, zero padded
fmt_02x(n) == LET d == HexOfInt(n) IN IF Len(d) < 2 THEN <<"0">> \o d ELSE d

\* sprintf(buf, "%02x %02x", a, v): the text written
sprintf_02x_02x(a, v) == fmt_02x(a) \o <<" ">> \o fmt_02x(v)

----------------------------------------------------------------------------
(* Register transport: one SMBus byte transaction per call *)

\* how the bus answers one transfer: 0 = the transfer itself goes through,
\* otherwise the negative errno of the bus fault
BusOutcomes == {0} \cup BusErrnos

\* the command byte put on the wire for register number reg (u8 command)
BusAddr(reg) == reg % 256

\* i2c_smbus_read_byte_data as called by si5326_read_reg: the byte, or a
\* negative errno (bus fault, or no such register in the chip)
si5326_read_reg(regsv, reg, outcome) ==
    IF outcome < 0 THEN outcome
    ELSE IF BusAddr(reg) \notin DOMAIN regsv THEN -ENXIO
    ELSE regsv[BusAddr(reg)]

\* si5326_write_reg passing value and reg to i2c_smbus_write_byte_data in
\* each other's place
si5326_write_reg_swapped(regsv, reg, value, outcome) ==
    IF outcome < 0 THEN [rc |-> outcome, regs |-> regsv]
    ELSE IF BusAddr(value) \notin DOMAIN regsv THEN [rc |-> -ENXIO, regs |-> regsv]
    ELSE [rc |-> 0, regs |-> [regsv EXCEPT ![BusAddr(value)] = reg % 256]]

\* i2c_smbus_write_byte_data as called by si5326_write_reg; value is the u8
\* parameter.  Gives the return code and the register file afterwards.
si5326_write_reg(regsv, reg, value, outcome) ==
    IF outcome < 0 THEN [rc |-> outcome, regs |-> regsv]
    ELSE IF BusAddr(reg) \notin DOMAIN regsv THEN [rc |-> -ENXIO, regs |-> regsv]
    ELSE [rc |-> 0, regs |-> [regsv EXCEPT ![BusAddr(reg)] = value]]

\* entries of the per-call transaction log
RdTxn(reg, rc) == [kind |-> "rd", reg |-> reg, val |-> -1, rc |-> rc]
WrTxn(reg, value, rc) == [kind |-> "wr", reg |-> reg, val |-> value, rc |-> rc]

\* entries of the kernel log written by dev_err / dev_info
LogMsg(msg, ir, got, want, text) ==
    [msg |-> msg, ir |-> ir, got |-> got, want |-> want, text |-> text]

----------------------------------------------------------------------------
(* Device presence validation *)

\* init_step with the comparison against the signature stopping one register
\* short (ir < NRESETS - 1): the last signature register is read, not checked
init_step_short_compare(regsv, outcomes, st, ir) ==
    LET rc == si5326_read_reg(regsv, ir, outcomes[ir + 1])
        b == Append(st.bus, RdTxn(ir, rc))
    IN  IF rc < 0
        THEN [st EXCEPT !.done = TRUE, !.rc = -EIO, !.bus = b,
                        !.klog = Append(@, LogMsg("read_failed", ir, rc, 0, <<>>))]
        ELSE IF ir < NRESETS - 1 /\ rc # si5326_reset_values[ir + 1]
        THEN [st EXCEPT !.fail = 1, !.bus = b,
                        !.klog = Append(@, LogMsg("not_reset", ir, rc,
                                                 si5326_reset_values[ir + 1], <<>>))]
        ELSE [st EXCEPT !.bus = b]

\* init_step leaving the loop at the first mismatch (return -ENODEV inside
\* the loop)
init_step_stop_at_mismatch(regsv, outcomes, st, ir) ==
    LET rc == si5326_read_reg(regsv, ir, outcomes[ir + 1])
        b == Append(st.bus, RdTxn(ir, rc))
    IN  IF rc < 0
        THEN [st EXCEPT !.done = TRUE, !.rc = -EIO, !.bus = b,
                        !.klog = Append(@, LogMsg("read_failed", ir, rc, 0, <<>>))]
        ELSE IF rc # si5326_reset_values[ir + 1]
        THEN [st EXCEPT !.done = TRUE, !.rc = -ENODEV, !.fail = 1, !.bus = b,
                        !.klog = Append(@, LogMsg("not_reset", ir, rc,
                                                 si5326_reset_values[ir + 1], <<>>))]
        ELSE [st EXCEPT !.bus = b]

\* init_step carrying on after a failed read (the failure only sets fail)
init_step_read_on(regsv, outcomes, st, ir) ==
    LET rc == si5326_read_reg(regsv, ir, outcomes[ir + 1])
        b == Append(st.bus, RdTxn(ir, rc))
    IN  IF rc < 0
        THEN [st EXCEPT !.fail = 1, !.bus = b,
                        !.klog = Append(@, LogMsg("read_failed", ir, rc, 0, <<>>))]
        ELSE IF rc # si5326_reset_values[ir + 1]
        THEN [st EXCEPT !.fail = 1, !.bus = b,
                        !.klog = Append(@, LogMsg("not_reset", ir, rc,
                                                 si5326_reset_values[ir + 1], <<>>))]
        ELSE [st EXCEPT !.bus = b]

\* one iteration of the loop of si5326_init_client; outcomes[ir + 1] is how
\* the bus answers the read of register ir
init_step(regsv, outcomes, st, ir) ==
    LET rc == si5326_read_reg(regsv, ir, outcomes[ir + 1])
        b == Append(st.bus, RdTxn(ir, rc))
    IN  IF rc < 0
        THEN [st EXCEPT !.done = TRUE, !.rc = -EIO, !.bus = b,
                        !.klog = Append(@, LogMsg("read_failed", ir, rc, 0, <<>>))]
        ELSE IF rc # si5326_reset_values[ir + 1]
        THEN [st EXCEPT !.fail = 1, !.bus = b,
                        !.klog = Append(@, LogMsg("not_reset", ir, rc,
                                                 si5326_reset_values[ir + 1], <<>>))]
        ELSE [st EXCEPT !.bus = b]

RECURSIVE init_loop(_, _, _, _)
init_loop(regsv, outcomes, st, ir) ==
    IF st.done \/ ir >= NRESETS THEN st
    ELSE init_loop(regsv, outcomes, init_step(regsv, outcomes, st, ir), ir + 1)

\* si5326_init_client: return code, transactions issued, messages logged
si5326_init_client(regsv, outcomes) ==
    LET st == init_loop(regsv, outcomes,
                        [done |-> FALSE, rc |-> 0, fail |-> 0,
                         bus |-> <<>>, klog |-> <<>>], 0)
    IN  IF st.done THEN st
        ELSE IF st.fail # 0 THEN [st EXCEPT !.rc = -ENODEV]
        ELSE [st EXCEPT !.rc = 0,
                        !.klog = Append(@, LogMsg("found", NRESETS, 0, 0, <<>>))]

----------------------------------------------------------------------------
(* The record kept of the most recent entry point *)

\* op: "none", "probe", "store", "show", "remove"; buf: the line written
\* (store); count: its length; ret: the value returned; bus: the transport
\* calls made, in order; klog: the messages logged; out: the text show
\* produced; validated / init_rc: whether si5326_init_client ran and what it
\* returned (probe); pre_addr / pre_regs: last_addr and the register file as
\* they were when the entry point was called
Call(o, buf, ret, bus, klog, out, validated, init_rc) ==
    [op |-> o, buf |-> buf, count |-> Len(buf), ret |-> ret, bus |-> bus,
     klog |-> klog, out |-> out, validated |-> validated, init_rc |-> init_rc,
     pre_addr |-> data.last_addr, pre_regs |-> regs]

\* the record before any entry point has run
NoCall == Call("none", <<>>, 0, <<>>, <<>>, <<>>, FALSE, 0)

\* kzalloc gives a zeroed record
ZeroData == [live |-> TRUE, last_addr |-> 0]
\* kfree: the memory is gone, the client data pointer still points at it
Freed(d) == [d EXCEPT !.live = FALSE]

----------------------------------------------------------------------------
(* Attach and detach *)

\* si5326_probe allocating with kmalloc: the record starts with whatever the
\* memory held, here the content of the record freed before
si5326_probe_kmalloc(func, allocok, outcomes, cgerr) ==
    /\ bind = "unbound"
    /\ UNCHANGED <<regs, uaf>>
    /\ IF ~func
       THEN /\ last' = Call("probe", <<>>, -EIO, <<>>, <<>>, <<>>, FALSE, 0)
            /\ UNCHANGED <<bind, sysfs, data>>
       ELSE IF ~allocok
       THEN /\ last' = Call("probe", <<>>, -ENOMEM, <<>>, <<>>, <<>>, FALSE, 0)
            /\ UNCHANGED <<bind, sysfs, data>>
       ELSE LET v == si5326_init_client(regs, outcomes)
                err == IF v.rc # 0 THEN v.rc ELSE cgerr
            IN  /\ last' = Call("probe", <<>>, err, v.bus, v.klog, <<>>, TRUE, v.rc)
                /\ IF err # 0
                   THEN /\ data' = Freed(data)
                        /\ UNCHANGED <<bind, sysfs>>
                   ELSE /\ data' = [data EXCEPT !.live = TRUE]
                        /\ sysfs' = TRUE
                        /\ bind' = "bound"

\* si5326_probe.  func: i2c_check_functionality's answer; allocok: whether
\* kzalloc succeeds; outcomes: how the bus answers the validation reads;
\* cgerr: what sysfs_create_group returns
si5326_probe(func, allocok, outcomes, cgerr) ==
    /\ bind = "unbound"
    /\ UNCHANGED <<regs, uaf>>
    /\ IF ~func
       THEN /\ last' = Call("probe", <<>>, -EIO, <<>>, <<>>, <<>>, FALSE, 0)
            /\ UNCHANGED <<bind, sysfs, data>>
       ELSE IF ~allocok
       THEN /\ last' = Call("probe", <<>>, -ENOMEM, <<>>, <<>>, <<>>, FALSE, 0)
            /\ UNCHANGED <<bind, sysfs, data>>
       ELSE LET v == si5326_init_client(regs, outcomes)
                err == IF v.rc # 0 THEN v.rc ELSE cgerr
            IN  /\ last' = Call("probe", <<>>, err, v.bus, v.klog, <<>>, TRUE, v.rc)
                /\ IF err # 0
                   THEN /\ data' = Freed(ZeroData)
                        /\ UNCHANGED <<bind, sysfs>>
                   ELSE /\ data' = ZeroData
                        /\ sysfs' = TRUE
                        /\ bind' = "bound"

\* si5326_remove with its statements in the other order: kfree comes first
remove_first_kfree ==
    /\ data' = Freed(data)
    /\ UNCHANGED sysfs

\* si5326_remove, first statement: sysfs_remove_group
remove_first ==
    /\ sysfs' = FALSE
    /\ UNCHANGED data

\* si5326_remove, second statement: kfree(i2c_get_clientdata(client))
remove_second ==
    /\ data' = Freed(data)
    /\ UNCHANGED sysfs

\* the two statements of si5326_remove, one step each: handlers of other
\* callers can run between them
RemoveGroup ==
    /\ bind = "bound"
    /\ remove_first
    /\ bind' = "removing"
    /\ last' = Call("remove", <<>>, 0, <<>>, <<>>, <<>>, FALSE, 0)
    /\ UNCHANGED <<regs, uaf, hist, conc>>

RemoveFree ==
    /\ bind = "removing"
    /\ remove_second
    /\ bind' = "unbound"
    /\ UNCHANGED <<regs, last, uaf, hist, conc>>

----------------------------------------------------------------------------
(* sysfs handlers of the attribute si5326_reg *)

\* si5326_show_reg; outcome: how the bus answers the read
si5326_show_reg(outcome) ==
    /\ sysfs
    /\ LET rc == si5326_read_reg(regs, data.last_addr, outcome)
           txt == IF rc >= 0 THEN sprintf_02x_02x(data.last_addr, rc) ELSE <<>>
       IN  last' = Call("show", <<>>, IF rc >= 0 THEN Len(txt) ELSE rc,
                        <<RdTxn(data.last_addr, rc)>>, <<>>, txt, FALSE, 0)
    /\ uaf' = (uaf \/ ~data.live)
    /\ UNCHANGED <<bind, sysfs, data, regs>>

\* the value that reaches the u8 parameter of si5326_write_reg
AsU8(value) == value % 256

\* the comment test taking only a line that is "#" and nothing else
is_comment_whole_line(buf) == buf = <<"#">>

\* the test buf[0] == '#'
is_comment(buf) == At(buf, 1) = "#"

\* case 2 falling into case 1 (or assigning last_addr as well)
cursor_after_any_match(sc, old) == IF sc.n >= 1 THEN sc.addr ELSE old

\* the assignment standing before the switch, addr starting as 0
cursor_after_before_switch(sc, old) == IF sc.n >= 1 THEN sc.addr ELSE 0

\* data->last_addr when the switch is left: assigned in case 1 only
cursor_after(sc, old) == IF sc.n = 1 THEN sc.addr ELSE old

\* the test of si5326_write_reg's result negated
store_ret_negated(n, wrc, count) ==
    CASE n = 2 -> IF wrc = 0 THEN -EIO ELSE count
      [] n = 1 -> count
      [] OTHER -> -EIO

\* the default case returning count like the other two
store_ret_default_count(n, wrc, count) ==
    CASE n = 2 -> IF wrc # 0 THEN -EIO ELSE count
      [] n = 1 -> count
      [] OTHER -> count

\* the value the switch returns; wrc is what si5326_write_reg returned
store_ret(n, wrc, count) ==
    CASE n = 2 -> IF wrc # 0 THEN -EIO ELSE count
      [] n = 1 -> count
      [] OTHER -> -EIO

\* si5326_store_reg on the line buf (count = its length)
si5326_store_reg(buf) ==
    /\ sysfs
    /\ UNCHANGED <<bind, sysfs>>
    /\ IF is_comment(buf)
       THEN /\ last' = Call("store", buf, Len(buf), <<>>, <<>>, <<>>, FALSE, 0)
            /\ UNCHANGED <<data, regs, uaf>>
       ELSE LET sc == sscanf_d_0x_x(buf)
                cur == cursor_after(sc, data.last_addr)
            IN  /\ data' = [data EXCEPT !.last_addr = cur]
                /\ uaf' = (uaf \/ (sc.n = 1 /\ ~data.live))
                /\ IF sc.n = 2
                   THEN \E outcome \in BusOutcomes :
                        LET w == si5326_write_reg(regs, sc.addr, AsU8(sc.value), outcome)
                        IN  /\ regs' = w.regs
                            /\ last' = Call("store", buf,
                                            store_ret(sc.n, w.rc, Len(buf)),
                                            <<WrTxn(sc.addr, AsU8(sc.value), w.rc)>>,
                                            <<>>, <<>>, FALSE, 0)
                   ELSE /\ regs' = regs
                        /\ last' = Call("store", buf, store_ret(sc.n, 0, Len(buf)),
                                        <<>>,
                                        IF sc.n = 1 THEN <<>>
                                        ELSE <<LogMsg("store_fail", 0, 0, 0, buf)>>,
                                        <<>>, FALSE, 0)

----------------------------------------------------------------------------
(* Inputs *)

\* decimal digits of n, as echo or printf %d would write them
RECURSIVE DecDigits(_)
DecDigits(n) == IF n < 10 THEN <<HexChars[n + 1]>>
                ELSE DecDigits(n \div 10) \o <<HexChars[(n % 10) + 1]>>
DecStr(n) == IF n < 0 THEN <<"-">> \o DecDigits(0 - n) ELSE DecDigits(n)

\* the register addresses and values of the command script: 3, 7, 11, ...
\* (3 lies in the reset signature, 11 is above MaxReg) and 0x1a, 0x2a, 0x12a
ScriptAddrs == {4 * k - 1 : k \in 1..NumAddrs}
ScriptVals == {26, 42, 298}

SelectLine(a) == DecStr(a)
WriteLine(a, v) == DecStr(a) \o <<" ", "0", "x">> \o HexOf(v)

\* the lines user space writes to si5326_reg in Spec, following the usage in
\* the header of si5326.c, with comments and the usual slips
ScriptLines ==
    {SelectLine(a) : a \in ScriptAddrs \cup {-1}}
    \cup {WriteLine(a, v) : a \in ScriptAddrs, v \in ScriptVals}
    \cup {DecStr(a) \o <<" ">> \o DecStr(26) : a \in ScriptAddrs}
    \cup {DecStr(a) \o <<" ", "0", "x">> : a \in ScriptAddrs}
    \cup {WriteLine(a, 26) \o <<" ">> \o DecStr(a) : a \in ScriptAddrs}
    \cup {<<"#">> \o WriteLine(a, 26) : a \in ScriptAddrs}
    \cup {<<"#">> \o SelectLine(a) : a \in ScriptAddrs}
    \cup {<<"#", "z">>, <<"z">>, <<"0", "x", "1", "a">>, << >>}

\* the characters of the raw lines of ParseSpec, and all lines up to MaxLen
Chars == {"#", "0", "7", "x", " "}
Lines == UNION {[1..n -> Chars] : n \in 0..MaxLen}

\* the chip as found at attach time: each signature register holds its reset
\* value or has been reprogrammed (0), every other register holds 0
RegFiles ==
    {[i \in 0..MaxReg |->
        IF i < NRESETS /\ i \notin S THEN si5326_reset_values[i + 1] ELSE 0]
     : S \in SUBSET (0..(NRESETS - 1))}
ResetRegs == [i \in 0..MaxReg |->
                IF i < NRESETS THEN si5326_reset_values[i + 1] ELSE 0]

\* no entry point recorded; no second pair of devices, no caller in them
NoHistory == hist = <<>>
NoCallers == devs = <<>> /\ thr = <<>>

----------------------------------------------------------------------------
(* Spec: the life of one device, commands taken from the script *)

Init ==
    /\ bind = "unbound"
    /\ sysfs = FALSE
    /\ data = Freed(ZeroData)
    /\ regs \in RegFiles
    /\ uaf = FALSE
    /\ last = NoCall
    /\ NoHistory
    /\ NoCallers

Probe ==
    /\ \E func \in BOOLEAN, allocok \in BOOLEAN,
          outcomes \in [1..NRESETS -> BusOutcomes], cgerr \in {0, -ENOMEM} :
           si5326_probe(func, allocok, outcomes, cgerr)
    /\ UNCHANGED <<hist, conc>>

Store ==
    /\ \E buf \in ScriptLines : si5326_store_reg(buf)
    /\ UNCHANGED <<hist, conc>>

Show ==
    /\ \E outcome \in BusOutcomes : si5326_show_reg(outcome)
    /\ UNCHANGED <<hist, conc>>

Next == Probe \/ RemoveGroup \/ RemoveFree \/ Store \/ Show

Spec == Init /\ [][Next]_vars

----------------------------------------------------------------------------
(* ParseSpec: one raw line, any text up to MaxLen characters, written to an *)
(* attached device whose cursor is 3, followed by one read                 *)

ParseInit ==
    /\ bind = "bound"
    /\ sysfs = TRUE
    /\ data = [ZeroData EXCEPT !.last_addr = 3]
    /\ regs = ResetRegs
    /\ uaf = FALSE
    /\ last = NoCall
    /\ NoHistory
    /\ NoCallers

StoreLine ==
    /\ last.op = "none"
    /\ \E buf \in Lines : si5326_store_reg(buf)
    /\ UNCHANGED <<hist, conc>>

ShowAfter ==
    /\ last.op = "store"
    /\ \E outcome \in BusOutcomes : si5326_show_reg(outcome)
    /\ UNCHANGED <<hist, conc>>

ParseNext == StoreLine \/ ShowAfter

ParseSpec == ParseInit /\ [][ParseNext]_vars

----------------------------------------------------------------------------
(* RoundSpec: on a freshly attached device one write-form line, then one   *)
(* address-select, then reads; hist keeps every call                       *)

\* number of reads made after the address-select
MaxReads == 3

\* byte addresses: every register of the chip, the first it does not have,
\* and the last byte address; byte values
RoundAddrs == 0..(MaxReg + 1) \cup {255}
RoundVals == {0, 5, 42, 255}

\* the device right after a successful si5326_probe
AttachedInit ==
    /\ bind = "bound"
    /\ sysfs = TRUE
    /\ data = ZeroData
    /\ regs = ResetRegs
    /\ uaf = FALSE
    /\ last = NoCall
    /\ NoHistory
    /\ NoCallers

RoundWrite ==
    /\ hist = <<>>
    /\ \E a \in RoundAddrs, v \in RoundVals : si5326_store_reg(WriteLine(a, v))
    /\ hist' = Append(hist, last')
    /\ UNCHANGED conc

RoundSelect ==
    /\ Len(hist) = 1
    /\ \E a \in RoundAddrs : si5326_store_reg(SelectLine(a))
    /\ hist' = Append(hist, last')
    /\ UNCHANGED conc

RoundRead ==
    /\ Len(hist) >= 2
    /\ Len(hist) < 2 + MaxReads
    /\ \E outcome \in BusOutcomes : si5326_show_reg(outcome)
    /\ hist' = Append(hist, last')
    /\ UNCHANGED conc

RoundNext == RoundWrite \/ RoundSelect \/ RoundRead

RoundSpec == AttachedInit /\ [][RoundNext]_vars

----------------------------------------------------------------------------
(* SeqSpec: any sequence of up to MaxCalls commands and reads on a freshly *)
(* attached device; hist keeps every call                                  *)

\* number of calls followed
MaxCalls == 3

\* selects (one with a blank in front), a write, a write with more after it,
\* a comment, and lines that are none of the documented forms
SeqLines ==
    {SelectLine(3), SelectLine(7), <<" ">> \o SelectLine(3),
     WriteLine(7, 26), WriteLine(7, 26) \o <<" ">> \o SelectLine(3),
     <<"#">> \o SelectLine(3),
     <<"z">>, << >>,
     SelectLine(3) \o <<" ">> \o DecStr(26),
     SelectLine(7) \o <<" ", "0", "x">>,
     SelectLine(3) \o <<"#">>}

SeqStore ==
    /\ Len(hist) < MaxCalls
    /\ \E buf \in SeqLines : si5326_store_reg(buf)
    /\ hist' = Append(hist, last')
    /\ UNCHANGED conc

SeqShow ==
    /\ Len(hist) < MaxCalls
    /\ \E outcome \in BusOutcomes : si5326_show_reg(outcome)
    /\ hist' = Append(hist, last')
    /\ UNCHANGED conc

SeqNext == SeqStore \/ SeqShow

SeqSpec == AttachedInit /\ [][SeqNext]_vars

----------------------------------------------------------------------------
(* ConcSpec: two attached devices and callers that run the handlers of     *)
(* si5326_reg at the same time.  A handler is a sequence of steps, one for *)
(* each access to what callers share: the record, the guard, the bus.      *)

\* number of callers that can be inside handlers at the same time
NumCallers == 2
Callers == 1..NumCallers
Handles == {"A", "B"}

\* the state of a mutex nobody holds (mutex_init)
Unlocked == 0

\* probe has succeeded: zeroed record, guard initialised, chip in reset state
Attached == [data |-> ZeroData, lock |-> Unlocked, regs |-> ResetRegs]

\* the lines callers write
ConcLines == {SelectLine(3), WriteLine(3, 42), <<"#">>, <<"z">>}

\* lines 107-110 on each of these lines, worked out once: whether buf[0] is
\* '#', and what sscanf converts of a line that is no comment
ConcScan ==
    [buf \in ConcLines |->
        [comment |-> is_comment(buf),
         sc |-> IF is_comment(buf) THEN [n |-> 0] ELSE sscanf_d_0x_x(buf)]]

\* the record i2c_get_clientdata finds, were there one static record for all
\* clients
i2c_get_clientdata_static(d) == "A"

\* i2c_get_clientdata(to_i2c_client(dev)): the record set at probe for
\* this client, named by its handle
i2c_get_clientdata(d) == d

\* a caller's position.  pc: "idle" (in no handler), "show_read" and
\* "store_write" (inside si5326_read_reg / si5326_write_reg),
\* "show_fmt" (the read has returned, the report is not yet printed);
\* op, dev, buf: the handler, its device and the line written; reg, val:
\* the arguments of the transport call; rc: what it returned; ret, out:
\* what the handler returned and printed.  An idle caller keeps op, dev,
\* ret and out of its last call, and reg and rc of its last read.
Pos(pc, op, d, buf, reg, val, rc, ret, out) ==
    [pc |-> pc, op |-> op, dev |-> d, buf |-> buf, reg |-> reg, val |-> val,
     rc |-> rc, ret |-> ret, out |-> out]
Outside == Pos("idle", "none", "A", <<>>, 0, 0, 0, 0, <<>>)

\* si5326_show_reg, lines 88-91: data->last_addr is read and passed to
\* si5326_read_reg
ShowCall(t, d) ==
    /\ thr[t].pc = "idle"
    /\ thr' = [thr EXCEPT ![t] =
                 Pos("show_read", "show", d, <<>>,
                     devs[i2c_get_clientdata(d)].data.last_addr, 0, 0, 0, <<>>)]
    /\ UNCHANGED <<devs, life, hist>>

\* line 91, the transaction: the chip of the handle answers
ShowRead(t, outcome) ==
    /\ thr[t].pc = "show_read"
    /\ thr' = [thr EXCEPT ![t].pc = "show_fmt",
                          ![t].rc = si5326_read_reg(devs[thr[t].dev].regs,
                                                    thr[t].reg, outcome)]
    /\ UNCHANGED <<devs, life, hist>>

\* lines 92-96: data->last_addr is read again for the report
ShowReturn(t) ==
    /\ thr[t].pc = "show_fmt"
    /\ LET rc == thr[t].rc
           txt == IF rc >= 0
                  THEN sprintf_02x_02x(
                         devs[i2c_get_clientdata(thr[t].dev)].data.last_addr, rc)
                  ELSE <<>>
       IN  thr' = [thr EXCEPT ![t].pc = "idle",
                              ![t].ret = IF rc >= 0 THEN Len(txt) ELSE rc,
                              ![t].out = txt]
    /\ UNCHANGED <<devs, life, hist>>

\* si5326_store_reg on a line that makes no transport call: a comment, an
\* address-select (case 1, the assignment to data->last_addr) or a line
\* sscanf converts nothing of (default)
StoreLocal(t, d, buf) ==
    /\ thr[t].pc = "idle"
    /\ LET sc == ConcScan[buf].sc
           cd == i2c_get_clientdata(d)
       IN  /\ sc.n # 2
           /\ devs' = [devs EXCEPT ![cd].data.last_addr = cursor_after(sc, @)]
           /\ thr' = [thr EXCEPT ![t] =
                        Pos("idle", "store", d, <<>>, 0, 0, 0,
                            IF ConcScan[buf].comment THEN Len(buf)
                            ELSE store_ret(sc.n, 0, Len(buf)), <<>>)]
    /\ UNCHANGED <<life, hist>>

\* si5326_store_reg, case 2: si5326_write_reg is called
StoreCall(t, d, buf) ==
    /\ thr[t].pc = "idle"
    /\ ~ConcScan[buf].comment
    /\ LET sc == ConcScan[buf].sc
       IN  /\ sc.n = 2
           /\ thr' = [thr EXCEPT ![t] =
                        Pos("store_write", "store", d, buf, sc.addr,
                            AsU8(sc.value), 0, 0, <<>>)]
    /\ UNCHANGED <<devs, life, hist>>

\* line 112, the transaction, and the return of lines 113 / 115
StoreWrite(t, outcome) ==
    /\ thr[t].pc = "store_write"
    /\ LET w == si5326_write_reg(devs[thr[t].dev].regs, thr[t].reg,
                                 thr[t].val, outcome)
       IN  /\ devs' = [devs EXCEPT ![thr[t].dev].regs = w.regs]
           /\ thr' = [thr EXCEPT ![t] =
                        Pos("idle", "store", thr[t].dev, <<>>, 0, 0, 0,
                            store_ret(2, w.rc, Len(thr[t].buf)), <<>>)]
    /\ UNCHANGED <<life, hist>>

ConcInit ==
    /\ bind = "unbound"
    /\ sysfs = FALSE
    /\ data = Freed(ZeroData)
    /\ regs = ResetRegs
    /\ uaf = FALSE
    /\ last = NoCall
    /\ NoHistory
    /\ devs = [d \in Handles |-> Attached]
    /\ thr = [t \in Callers |-> Outside]

ConcShowCall == \E t \in Callers, d \in Handles : ShowCall(t, d)
ConcShowRead == \E t \in Callers, outcome \in BusOutcomes : ShowRead(t, outcome)
ConcShowReturn == \E t \in Callers : ShowReturn(t)
ConcStoreLocal == \E t \in Callers, d \in Handles, buf \in ConcLines : StoreLocal(t, d, buf)
ConcStoreCall == \E t \in Callers, d \in Handles, buf \in ConcLines : StoreCall(t, d, buf)
ConcStoreWrite == \E t \in Callers, outcome \in BusOutcomes : StoreWrite(t, outcome)

ConcNext ==
    \/ ConcShowCall
    \/ ConcShowRead
    \/ ConcShowReturn
    \/ ConcStoreLocal
    \/ ConcStoreCall
    \/ ConcStoreWrite

ConcSpec == ConcInit /\ [][ConcNext]_vars

----------------------------------------------------------------------------
(* Attach: claims C1 - C4 *)

Validated == last.op = "probe" /\ last.validated

\* the registers whose content, when probe was called, was not the reset value
Differing == {i \in 0..(NRESETS - 1) : last.pre_regs[i] # si5326_reset_values[i + 1]}

\* the registers a mismatch was logged for
Reported == {last.klog[k].ir : k \in {j \in 1..Len(last.klog) : last.klog[j].msg = "not_reset"}}

FailedReads == {k \in 1..Len(last.bus) : last.bus[k].rc < 0}

\* C1: validation returns 0 exactly when four reads were made and the k-th
\* returned the k-th signature byte; a successful validation issued exactly
\* the reads of registers 0, 1, 2, 3 in that order (each returning its
\* signature byte, which is what the chip held) and no write.
C1_ValidationIffSignature ==
    Validated =>
        /\ (last.init_rc = 0) <=>
              (/\ Len(last.bus) >= NRESETS
               /\ \A k \in 1..NRESETS : last.bus[k].rc = si5326_reset_values[k])
        /\ (last.init_rc = 0) =>
              /\ last.bus = [k \in 1..NRESETS |-> RdTxn(k - 1, si5326_reset_values[k])]
              /\ Differing = {}
              /\ regs = last.pre_regs

C1_Witness ==
    /\ Validated
    /\ last.init_rc = 0
    /\ last.ret = 0
    /\ Len(last.bus) = NRESETS

\* C2: when no validation read fails and the chip differs from the signature
\* in at least one register, validation returns -ENODEV, all four registers
\* have been read (0..3 in order), and a mismatch is logged for exactly the
\* differing registers.
C2_MismatchReportsAll ==
    (Validated /\ FailedReads = {} /\ Differing # {}) =>
        /\ last.init_rc = -ENODEV
        /\ last.ret = -ENODEV
        /\ Len(last.bus) = NRESETS
        /\ \A k \in 1..NRESETS :
              last.bus[k] = RdTxn(k - 1, last.pre_regs[k - 1])
        /\ Reported = Differing

\* two registers differ, the first of them is not the last one read
C2_Witness ==
    /\ Validated
    /\ FailedReads = {}
    /\ Differing = {1, 3}
    /\ last.init_rc = -ENODEV

\* C3: when a validation read fails at the transport, it is the last read
\* made: validation returns -EIO, the reads made are those of registers
\* 0..i in order (i + 1 attempts), and this holds also when a register
\* below i mismatched.
C3_ReadFailureAborts ==
    (Validated /\ FailedReads # {}) =>
        /\ FailedReads = {Len(last.bus)}
        /\ last.init_rc = -EIO
        /\ last.ret = -EIO
        /\ \A k \in 1..Len(last.bus) : last.bus[k].kind = "rd" /\ last.bus[k].reg = k - 1
        /\ Len(last.bus) <= NRESETS

\* register 2 fails after register 0 mismatched
C3_Witness ==
    /\ Validated
    /\ FailedReads = {3}
    /\ 0 \in Reported
    /\ last.init_rc = -EIO

\* C4: the attribute exists only while the device is bound and its record is
\* allocated; a failed attach leaves no attribute and no record; no handler
\* has ever used a freed record.
C4_InterfaceOnlyWhileAttached ==
    /\ sysfs => (bind = "bound" /\ data.live)
    /\ (last.op = "probe" /\ last.ret # 0) => (~sysfs /\ ~data.live /\ bind = "unbound")
    /\ (last.op \in {"store", "show"}) => data.live
    /\ ~uaf

\* detach under way: the attribute is gone, the record not yet freed
C4_Witness ==
    /\ bind = "removing"
    /\ ~sysfs
    /\ data.live

----------------------------------------------------------------------------
(* The command grammar as the interface documents it, read off the text    *)
(* without the scanner                                                     *)

IsDecTok(s) == Len(s) >= 1 /\ \A i \in 1..Len(s) : isdigit(s[i])
IsHexTok(s) == Len(s) >= 1 /\ \A i \in 1..Len(s) : isxdigit(s[i])
IsIntTok(s) == IsDecTok(s) \/ (Len(s) >= 2 /\ s[1] = "-" /\ IsDecTok(Tail(s)))

\* the number a digit string denotes, from its last digit
RECURSIVE NumVal(_, _)
NumVal(s, base) ==
    IF s = <<>> THEN 0
    ELSE DigitVal(s[Len(s)]) + base * NumVal(SubSeq(s, 1, Len(s) - 1), base)
IntVal(s) == IF s[1] = "-" THEN 0 - NumVal(Tail(s), 10) ELSE NumVal(s, 10)

\* the position of the first blank of s, Len(s) + 1 when it has none
FirstBlank(s) ==
    IF \E i \in 1..Len(s) : s[i] = " "
    THEN CHOOSE i \in 1..Len(s) : s[i] = " " /\ \A j \in 1..(i - 1) : s[j] # " "
    ELSE Len(s) + 1
Tok1(s) == SubSeq(s, 1, FirstBlank(s) - 1)
Rest(s) == SubSeq(s, FirstBlank(s) + 1, Len(s))

CommentForm(s) == Len(s) >= 1 /\ s[1] = "#"
\* <decimal-addr> 0x<hex-value>
WriteForm(s) ==
    /\ IsIntTok(Tok1(s))
    /\ Len(Rest(s)) >= 3
    /\ SubSeq(Rest(s), 1, 2) = <<"0", "x">>
    /\ IsHexTok(SubSeq(Rest(s), 3, Len(Rest(s))))
WriteAddr(s) == IntVal(Tok1(s))
WriteVal(s) == NumVal(SubSeq(Rest(s), 3, Len(Rest(s))), 16)
\* <decimal-addr>
SelectForm(s) == IsIntTok(s)

Stored == last.op = "store"
Shown == last.op = "show"
Unchanged == data.last_addr = last.pre_addr /\ regs = last.pre_regs

\* the two ways a store fails: both return -EIO, a ProtocolError also logs
\* the offending line
ProtocolError ==
    /\ last.ret = -EIO
    /\ last.klog = <<LogMsg("store_fail", 0, 0, 0, last.buf)>>
IOError == last.ret = -EIO /\ last.klog = <<>>
Success == last.ret = last.count /\ last.klog = <<>>

\* the report of show: two tokens separated by one blank
\* tok is n in lowercase hexadecimal, zero padded to two digits
Padded2(tok, n) ==
    /\ IsHexTok(tok)
    /\ Len(tok) >= 2
    /\ Len(tok) > 2 => tok[1] # "0"
    /\ NumVal(tok, 16) = n
Reports(txt, a, v) ==
    /\ Padded2(Tok1(txt), a)
    /\ Padded2(Rest(txt), v)

----------------------------------------------------------------------------
(* Commands: claims C5 - C10 *)

\* C5, the command itself: a write-form line makes exactly one transport
\* call, a write to the address written in the line, carrying the value
\* written in the line (a byte; wider values are the subject of C16), returns
\* the input length when the write succeeds and -EIO without a protocol
\* diagnostic when it fails, and leaves last_addr as it was.
C5_WriteEffect ==
    (Stored /\ WriteForm(last.buf)) =>
        /\ Len(last.bus) = 1
        /\ last.bus[1].kind = "wr"
        /\ last.bus[1].reg = WriteAddr(last.buf)
        /\ WriteVal(last.buf) <= 255 => last.bus[1].val = WriteVal(last.buf)
        /\ IF last.bus[1].rc = 0 THEN Success ELSE IOError
        /\ data.last_addr = last.pre_addr

\* C5, the following read: it is issued at, and when it succeeds reports, the
\* address selected before the write.
C5_ReadAfterWrite ==
    (Stored /\ WriteForm(last.buf) /\ last'.op = "show") =>
        /\ last'.bus = <<RdTxn(last.pre_addr, last'.bus[1].rc)>>
        /\ last'.ret >= 0 => Reports(last'.out, last.pre_addr, last'.bus[1].rc)

C6_SelectEffect ==
    (Stored /\ SelectForm(last.buf)) =>
        /\ last.bus = <<>>
        /\ Success
        /\ data.last_addr = IntVal(last.buf)
        /\ regs = last.pre_regs

\* C6, the next read: exactly one read transaction, at a; when it succeeds
\* the text is the pair (a, value read) in lowercase hexadecimal, two digits
\* at least, and its length is returned; when it fails nothing is reported.
C6_ReadAfterSelect ==
    (Stored /\ SelectForm(last.buf) /\ last'.op = "show") =>
        /\ last'.bus = <<RdTxn(IntVal(last.buf), last'.bus[1].rc)>>
        /\ IF last'.bus[1].rc >= 0
           THEN /\ Reports(last'.out, IntVal(last.buf), last'.bus[1].rc)
                /\ last'.bus[1].rc = regs[BusAddr(IntVal(last.buf))]
                /\ last'.ret = Len(last'.out)
           ELSE /\ last'.out = <<>>
                /\ last'.ret = last'.bus[1].rc

\* C6: an address-select command of one decimal integer a performs no
\* transport transaction, succeeds and sets last_addr = a; the next read
\* performs exactly one read at a and reports (a, value) as two lowercase
\* hexadecimal tokens zero-padded to two digits.
C6_SelectThenRead == [][C6_SelectEffect' /\ C6_ReadAfterSelect]_vars

\* the cursor moved from 3 to 7 by the line "7"
C6_Witness ==
    /\ Stored
    /\ last.buf = <<"7">>
    /\ last.pre_addr = 3
    /\ data.last_addr = 7

\* C7: a line whose first character is # returns the input length, makes no
\* transport call, logs nothing and leaves last_addr and the registers as
\* they were, whatever follows the #.
C7_CommentIsNoOp ==
    (Stored /\ CommentForm(last.buf)) =>
        /\ last.ret = last.count
        /\ last.bus = <<>>
        /\ last.klog = <<>>
        /\ Unchanged

\* a comment whose text is a write form
C7_Witness ==
    /\ Stored
    /\ last.buf = <<"#", "7", " ", "0", "x", "7">>
    /\ last.ret = 6
    /\ Unchanged

\* the number of blanks a line begins with
LeadBlanks(s) ==
    CHOOSE j \in 0..Len(s) :
        /\ \A i \in 1..j : s[i] = " "
        /\ j < Len(s) => s[j + 1] # " "
\* after its leading blanks the line goes on with a decimal integer
StartsWithInt(s) ==
    LET j == LeadBlanks(s)
    IN  /\ j < Len(s)
        /\ \/ isdigit(s[j + 1])
           \/ s[j + 1] = "-" /\ j + 2 <= Len(s) /\ isdigit(s[j + 2])

\* <decimal> <decimal>
TwoDecimalTokens(s) == IsIntTok(Tok1(s)) /\ IsDecTok(Rest(s))
\* <decimal> 0x
BareHexPrefix(s) == IsIntTok(Tok1(s)) /\ Rest(s) = <<"0", "x">>
\* the first two tokens of a line with a blank after the second, and whether
\* they are a write form followed by more
FirstTwo(s) == Tok1(s) \o <<" ">> \o Tok1(Rest(s))
WriteWithExtra(s) ==
    /\ FirstBlank(s) <= Len(s)
    /\ FirstBlank(Rest(s)) <= Len(Rest(s))
    /\ WriteForm(FirstTwo(s))

SelectsFirstToken ==
    /\ Success
    /\ last.bus = <<>>
    /\ data.last_addr = IntVal(Tok1(last.buf))
    /\ regs = last.pre_regs

\* C8 as claimed: every line that is no comment, no exact write form and no
\* single decimal integer fails with ProtocolError, leaves last_addr
\* unchanged and makes no bus transaction.
C8_MalformedAlwaysFails ==
    (Stored /\ ~CommentForm(last.buf) /\ ~WriteForm(last.buf) /\ ~SelectForm(last.buf)) =>
        /\ ProtocolError
        /\ data.last_addr = last.pre_addr
        /\ last.bus = <<>>

\* C8 as amended: a line that is no comment and does not begin, after
\* optional blanks, with a decimal integer fails with ProtocolError, changes
\* nothing and makes no bus transaction; a line that does begin with one is
\* never a ProtocolError: two decimal tokens and a bare 0x after the address
\* select the address, a write form followed by more text performs the write.
C8_NoLeadingIntegerFails ==
    (Stored /\ ~CommentForm(last.buf)) =>
        /\ ~StartsWithInt(last.buf) =>
              (ProtocolError /\ Unchanged /\ last.bus = <<>>)
        /\ StartsWithInt(last.buf) => last.klog = <<>>
        /\ TwoDecimalTokens(last.buf) => SelectsFirstToken
        /\ BareHexPrefix(last.buf) => SelectsFirstToken
        /\ WriteWithExtra(last.buf) =>
              /\ Len(last.bus) = 1
              /\ last.bus[1].kind = "wr"
              /\ last.bus[1].reg = WriteAddr(FirstTwo(last.buf))
              /\ last.bus[1].val = AsU8(WriteVal(FirstTwo(last.buf)))
              /\ data.last_addr = last.pre_addr

\* non-numeric text is refused
C8_Witness ==
    /\ Stored
    /\ last.buf = <<"x", "7">>
    /\ ProtocolError
    /\ Unchanged
    /\ last.bus = <<>>

\* <decimal> <token>, the token without blanks and not beginning with 0x
TwoTokensNoPrefix(s) ==
    /\ IsIntTok(Tok1(s))
    /\ Len(Rest(s)) >= 1
    /\ \A i \in 1..Len(Rest(s)) : Rest(s)[i] # " "
    /\ ~(Len(Rest(s)) >= 2 /\ SubSeq(Rest(s), 1, 2) = <<"0", "x">>)

\* C9: a two-token line whose second token lacks the 0x prefix makes no
\* transport call and changes no register; it is exactly one of a
\* ProtocolError that leaves last_addr alone and an address-select of its
\* first token, and always the same one: the address-select.
C9_UnprefixedValueSelects ==
    (Stored /\ TwoTokensNoPrefix(last.buf)) =>
        /\ last.bus = <<>>
        /\ regs = last.pre_regs
        /\ (ProtocolError /\ data.last_addr = last.pre_addr)
              # (Success /\ data.last_addr = IntVal(Tok1(last.buf)))
        /\ Success

\* "7 70": the cursor goes to 7, nothing is written
C9_Witness ==
    /\ Stored
    /\ last.buf = <<"7", " ", "7", "0">>
    /\ last.pre_addr = 3
    /\ data.last_addr = 7
    /\ last.bus = <<>>

\* C10: a command (store or show) that returns an error leaves last_addr and
\* the registers as they were, and every command makes at most one
\* transport call.
C10_ErrorsChangeNothing ==
    (Stored \/ Shown) =>
        /\ Len(last.bus) <= 1
        /\ last.ret < 0 => Unchanged

\* a write that failed on the bus, with the cursor elsewhere
C10_Witness ==
    /\ Stored
    /\ WriteForm(last.buf)
    /\ last.ret = -EIO
    /\ Len(last.bus) = 1
    /\ last.bus[1].rc < 0
    /\ last.bus[1].reg = 7
    /\ data.last_addr = 3

----------------------------------------------------------------------------
(* Sequences of commands: claim C12 *)

\* the write at the head of hist succeeded, and the line after it selects
\* the address written
WroteThenSelected ==
    /\ Len(hist) >= 2
    /\ WriteForm(hist[1].buf)
    /\ hist[1].ret = hist[1].count
    /\ SelectForm(hist[2].buf)
    /\ IntVal(hist[2].buf) = WriteAddr(hist[1].buf)

\* C12: after a successful write of byte v to byte address a and a select of
\* a, last_addr is a and the registers are those before the write with a
\* holding v; every further read is one read transaction at a that finds
\* last_addr and the registers so and leaves them so, and reports (a, v),
\* unless its bus transfer fails, when it reports nothing.
C12_RoundTrip ==
    WroteThenSelected =>
        LET a == WriteAddr(hist[1].buf)
            v == WriteVal(hist[1].buf)
            after == [hist[1].pre_regs EXCEPT ![a] = v]
        IN  /\ data.last_addr = a
            /\ regs = after
            /\ \A k \in 3..Len(hist) :
                  /\ hist[k].op = "show"
                  /\ hist[k].pre_addr = a
                  /\ hist[k].pre_regs = after
                  /\ Len(hist[k].bus) = 1
                  /\ hist[k].bus[1].kind = "rd"
                  /\ hist[k].bus[1].reg = a
                  /\ IF hist[k].bus[1].rc >= 0
                     THEN /\ hist[k].bus[1].rc = v
                          /\ Reports(hist[k].out, a, v)
                          /\ hist[k].ret = Len(hist[k].out)
                     ELSE /\ hist[k].out = <<>>
                          /\ hist[k].ret < 0

\* 0x2a written to register 3, 3 selected, read three times
C12_Witness ==
    /\ WroteThenSelected
    /\ hist[1].buf = <<"3", " ", "0", "x", "2", "a">>
    /\ Len(hist) = 5
    /\ \A k \in 3..5 : hist[k].out = <<"0", "3", " ", "2", "a">>

----------------------------------------------------------------------------
(* Sequences of commands: claim C15 *)

\* the address of the most recent line of hist that Sel takes for an
\* address-select, the initial value when there is none
MostRecent(Sel(_), Addr(_)) ==
    LET S == {k \in 1..Len(hist) : hist[k].op = "store" /\ Sel(hist[k].buf)}
    IN  IF S = {} THEN ZeroData.last_addr
        ELSE Addr(hist[CHOOSE k \in S : \A j \in S : j <= k].buf)

\* an address-select as the interface documents it, counting in the two-token
\* line without 0x (which the code takes for a select of its first token)
DocumentedSelect(s) == SelectForm(s) \/ TwoTokensNoPrefix(s)
DocumentedAddr(s) == IntVal(Tok1(s))

\* C15 as claimed: last_addr is the address of the most recent address-select
\* command, 0 after attach when there has been none; comments, writes,
\* malformed lines and reads leave it alone.
C15_CursorIsLastSelect ==
    data.last_addr = MostRecent(DocumentedSelect, DocumentedAddr)

\* s without the blanks it begins with
Strip(s) == SubSeq(s, LeadBlanks(s) + 1, Len(s))
\* the length of the decimal integer s begins with
IntLen(s) ==
    LET from == IF s[1] = "-" THEN 2 ELSE 1
    IN  CHOOSE j \in from..Len(s) :
            /\ \A i \in from..j : isdigit(s[i])
            /\ j < Len(s) => ~isdigit(s[j + 1])
\* the integer a line begins with, and the text after it
LeadInt(s) == IntVal(SubSeq(Strip(s), 1, IntLen(Strip(s))))
AfterInt(s) == Strip(SubSeq(Strip(s), IntLen(Strip(s)) + 1, Len(Strip(s))))
\* after the integer come 0x and, blanks apart, a hexadecimal digit
ContinuesAsWrite(s) ==
    LET r == AfterInt(s)
    IN  /\ Len(r) >= 3
        /\ r[1] = "0" /\ r[2] = "x"
        /\ LET h == Strip(SubSeq(r, 3, Len(r)))
           IN  Len(h) >= 1 /\ isxdigit(h[1])
\* the lines that move the cursor: no comment, a decimal integer first, and
\* no write
MovesCursor(s) == ~CommentForm(s) /\ StartsWithInt(s) /\ ~ContinuesAsWrite(s)

\* C15 as amended: last_addr is the integer at the start of the most recent
\* line that is no comment, begins with a decimal integer and does not go on
\* as a write, 0 after attach when there has been none; every call kept in
\* hist that is none of these found and left last_addr the same: comments,
\* writes that succeeded or failed, lines not beginning with an integer,
\* reads that succeeded or failed.
C15_CursorIsLastLeadingInteger ==
    /\ data.last_addr = MostRecent(MovesCursor, LeadInt)
    /\ \A k \in 1..Len(hist) :
          (hist[k].op = "show" \/ ~MovesCursor(hist[k].buf)) =>
              hist[k].pre_addr = (IF k < Len(hist) THEN hist[k + 1].pre_addr
                                  ELSE data.last_addr)

\* 7 selected, then a write that failed on the bus, then a read that failed:
\* the cursor is still 7
C15_Witness ==
    /\ Len(hist) = 3
    /\ hist[1].buf = <<"7">>
    /\ WriteForm(hist[2].buf) /\ hist[2].ret = -EIO
    /\ hist[3].op = "show" /\ hist[3].ret < 0
    /\ data.last_addr = 7

----------------------------------------------------------------------------
(* The write path and the initial cursor: claims C16, C18 *)

\* C16: the bus write of a write-form line goes to the decimal address of
\* the line (as passed to the transport and as put on the bus) and carries
\* the hexadecimal value of the line, also when that value is above 0xff:
\* no line is reported successful whose write carried another value.
C16_WriteIsPassThrough ==
    (Stored /\ WriteForm(last.buf)) =>
        /\ \A k \in 1..Len(last.bus) :
              /\ last.bus[k].kind = "wr"
              /\ last.bus[k].reg = WriteAddr(last.buf)
              /\ BusAddr(last.bus[k].reg) = WriteAddr(last.buf)
              /\ last.bus[k].val = WriteVal(last.buf) \/ ~Success
        /\ Success => Len(last.bus) = 1

Attached0 == last.op = "probe" /\ last.ret = 0

\* C18, the attach: a successful probe leaves last_addr = 0, whatever the
\* chip's other registers and the memory held before.
C18_CursorAfterAttach == Attached0 => (data.live /\ data.last_addr = 0)

\* C18, the first read: issued right after the attach it makes one read
\* transaction, at register 0, and when that succeeds reports address 00
\* with the value read.
C18_FirstRead ==
    (Attached0 /\ last'.op = "show") =>
        /\ last'.bus = <<RdTxn(0, last'.bus[1].rc)>>
        /\ last'.bus[1].rc >= 0 =>
              /\ Tok1(last'.out) = <<"0", "0">>
              /\ Reports(last'.out, 0, last'.bus[1].rc)
              /\ last'.bus[1].rc = regs[0]

\* C18: right after a successful attach last_addr is 0, for every device
\* and every earlier life of the device, so a read before any address-select
\* makes one read transaction at register 0 and reports address 00.
C18_InitialCursorIsZero == [][C18_CursorAfterAttach' /\ C18_FirstRead]_vars

\* attached again after a life in which the cursor had been moved to 7
C18_Witness ==
    /\ Attached0
    /\ last.pre_addr = 7
    /\ data.last_addr = 0

----------------------------------------------------------------------------
(* Concurrent callers: claims C11, C13, C14, C17 *)

\* the callers inside a handler of device d, and those of them inside a
\* transport call
Inside(d) == {t \in Callers : thr[t].pc # "idle" /\ thr[t].dev = d}
InFlight(d) == {t \in Inside(d) : thr[t].pc \in {"show_read", "store_write"}}

\* C11: on each device at most one caller is inside a transport call at any
\* time, and every caller inside a command of the device holds the device's
\* guard.
C11_OneTransactionPerDevice ==
    \A d \in Handles :
        /\ Cardinality(InFlight(d)) <= 1
        /\ \A t \in Inside(d) : devs[d].lock = t

\* what a step of caller t on device d reads and writes is d's: the cursor
\* passed to the transport and printed is d's, the value read is d's
\* register, the register written is d's
OwnDevice(t, d) ==
    /\ thr'[t].pc = "show_read" => thr'[t].reg = devs[d].data.last_addr
    /\ (thr[t].pc = "show_read" /\ thr'[t].rc >= 0) =>
          thr'[t].rc = devs[d].regs[BusAddr(thr[t].reg)]
    /\ (thr[t].pc = "show_fmt" /\ thr[t].rc >= 0) =>
          Reports(thr'[t].out, devs[d].data.last_addr, thr[t].rc)
    /\ (thr[t].pc = "store_write" /\ thr'[t].ret >= 0) =>
          devs'[d].regs = [devs[d].regs EXCEPT ![BusAddr(thr[t].reg)] = thr[t].val]

\* C13: a step of a command on one device leaves the other device's
\* last_addr, guard and registers as they were (so it issues no write to
\* it), leaves every other caller where it was, and takes the cursor it uses
\* and the register it reads or writes from its own device: what a command
\* on B returns depends on B alone.
C13_DevicesIndependent ==
    [][/\ \A t \in Callers : thr'[t] # thr[t] =>
             /\ \A e \in Handles \ {thr'[t].dev} : devs'[e] = devs[e]
             /\ \A u \in Callers \ {t} : thr'[u] = thr[u]
             /\ OwnDevice(t, thr'[t].dev)
       /\ \A e \in Handles : devs'[e] # devs[e] =>
             \E t \in Callers :
                 /\ thr'[t].op = "store" /\ thr'[t].dev = e /\ thr'[t].pc = "idle"
                 /\ thr[t].pc = "idle" \/ (thr[t].pc = "store_write" /\ thr[t].dev = e)
                 /\ \A u \in Callers \ {t} : thr'[u] = thr[u]]_vars

\* a read of B in flight while A's cursor and register 3 have been changed
C13_Witness ==
    /\ devs["A"].data.last_addr = 3
    /\ devs["A"].regs[3] = 42
    /\ devs["B"] = Attached
    /\ thr[1].dev = "A" /\ thr[1].pc = "show_fmt" /\ thr[1].rc = 42
    /\ thr[2].dev = "B" /\ thr[2].pc = "show_fmt" /\ thr[2].rc = 20

\* C14: the address a read reports is the address its transaction was
\* issued at.
C14_ReportIsConsistent ==
    \A t \in Callers :
        (thr[t].op = "show" /\ thr[t].pc = "idle" /\ thr[t].ret >= 0) =>
            Reports(thr[t].out, thr[t].reg, thr[t].rc)

\* C17: last_addr of a device changes only in a step of a caller that holds
\* the device's guard, and the guard is held by nobody who is not inside a
\* command of the device.
C17_CursorAssignedUnderGuard ==
    [][\A d \in Handles :
          /\ devs'[d].data.last_addr # devs[d].data.last_addr =>
                \E t \in Callers : devs[d].lock = t /\ thr'[t].op = "store"
                                     /\ thr'[t].dev = d
          /\ devs'[d].lock # Unlocked => devs'[d].lock \in Inside(d)']_vars

====
